---- MODULE Spec2Model ----
(***************************************************************************)
(* Model of scripts/compare_results.py: the two benchmark-report parsers,  *)
(* the name normalizer, the comparator and the two presenters.             *)
(*                                                                         *)
(* Representation.  A Python str is a sequence of one-character strings.   *)
(* A line of a report file is the sequence of its whitespace-separated     *)
(* tokens: every pattern in the script is applied to line.strip() and      *)
(* mentions whitespace only as \s+ , \s*$ or \S, so a match depends on the *)
(* tokens alone.  A float is an exact rational [n, d] in lowest terms      *)
(* (the magnitudes used here are far from the limits of a double, so the   *)
(* comparisons against 0, 1.0, 2.0 and 5.0 agree with the rounded ones).   *)
(* None is <<>> and a present optional value v is <<v>>.                   *)
(***************************************************************************)
EXTENDS Integers, Sequences, FiniteSets, TLC

VARIABLES pc, err, go_file, rust_file, go_i, rust_i, go_results,
          rust_results, current_name, comparisons, table, summary,
          nm_in, nm_out

vars == <<pc, err, go_file, rust_file, go_i, rust_i, go_results,
          rust_results, current_name, comparisons, table, summary,
          nm_in, nm_out>>

(***************************************************************************)
(* Bounds of the explored inputs.                                          *)
(***************************************************************************)
MaxGoLines == 1
MaxRustLines == 2
MaxEntries == 2
MaxPieces == 3
MaxCalls == 2

(***************************************************************************)
(* Characters and the classes the regular expressions use.                 *)
(***************************************************************************)
Digits == {"0", "1", "2", "3", "4", "5", "6", "7", "8", "9"}
LowerSeq == <<"a", "b", "c", "d", "e", "f", "g", "h", "i", "j", "k", "l", "m", "n", "o", "p", "q", "r", "s", "t", "u", "v", "w", "x", "y", "z">>
UpperSeq == <<"A", "B", "C", "D", "E", "F", "G", "H", "I", "J", "K", "L", "M", "N", "O", "P", "Q", "R", "S", "T", "U", "V", "W", "X", "Y", "Z">>
Letters == {LowerSeq[i] : i \in 1..26} \cup {UpperSeq[i] : i \in 1..26}
\* \w
WordChars == Letters \cup Digits \cup {"_", "µ"}
\* [\d.]
DigitDot == Digits \cup {"."}
\* the characters in code-point order (the order sorted() compares by)
CharOrder == <<"-", ".", "/", "0", "1", "2", "3", "4", "5", "6", "7", "8", "9", ":">> \o UpperSeq \o <<"[", "]", "_">> \o LowerSeq \o <<"µ">>
Chars == {CharOrder[i] : i \in 1..Len(CharOrder)}
Code == [c \in Chars |-> CHOOSE i \in 1..Len(CharOrder) : CharOrder[i] = c]

None == <<>>
Some(v) == <<v>>

StartsWith(s, p) == Len(s) >= Len(p) /\ SubSeq(s, 1, Len(p)) = p
EndsWith(s, p) == Len(s) >= Len(p) /\ SubSeq(s, Len(s) - Len(p) + 1, Len(s)) = p
Drop(s, n) == SubSeq(s, n + 1, Len(s))
AllIn(s, C) == \A i \in 1..Len(s) : s[i] \in C
\* one or more characters, all of class C
Plus(s, C) == Len(s) >= 1 /\ AllIn(s, C)

\* str.lower() on one character
LowerChar(c) ==
    IF \E i \in 1..26 : UpperSeq[i] = c
    THEN LowerSeq[CHOOSE i \in 1..26 : UpperSeq[i] = c]
    ELSE c
\* variant: the case is kept
lowerKeepCase(s) == s
lower(s) == [i \in 1..Len(s) |-> LowerChar(s[i])]
\* str.replace(old, new) for a one-character old
replace(s, old, new) == [i \in 1..Len(s) |-> IF s[i] = old THEN new ELSE s[i]]
NotUnderscore(c) == c # "_"
NotSlash(c) == c # "/"

(***************************************************************************)
(* normalize_name                                                          *)
(***************************************************************************)
\* re.sub(r'-\d+$', '', name): the one trailing dash-plus-digits group
StripTrailingNumber(s) ==
    IF \E i \in 1..Len(s) : s[i] = "-" /\ Plus(Drop(s, i), Digits)
    THEN SubSeq(s, 1, (CHOOSE i \in 1..Len(s) :
                          s[i] = "-" /\ Plus(Drop(s, i), Digits)) - 1)
    ELSE s

RemovePrefix(s, p) == IF StartsWith(s, p) THEN Drop(s, Len(p)) ELSE s

normalize_name(name) ==
    LET n1 == RemovePrefix(name, <<"B", "e", "n", "c", "h", "m", "a", "r", "k">>)
        n2 == RemovePrefix(n1, <<"b", "e", "n", "c", "h", "_">>)
        n3 == lower(SelectSeq(SelectSeq(n2, NotUnderscore), NotSlash))
    IN  StripTrailingNumber(n3)

(***************************************************************************)
(* Numbers: float(), int() and convert_to_ns                               *)
(***************************************************************************)
Abs(x) == IF x < 0 THEN -x ELSE x

RECURSIVE GCD(_, _)
GCD(a, b) == IF b = 0 THEN a ELSE GCD(b, a % b)

\* the rational n/d (d # 0) in lowest terms with a positive denominator
Rat(n, d) ==
    LET g == GCD(Abs(n), Abs(d))
        s == IF d < 0 THEN -1 ELSE 1
    IN  [n |-> (s * n) \div g, d |-> (s * d) \div g]
FromInt(i) == [n |-> i, d |-> 1]
RatLeq(a, b) == a.n * b.d <= b.n * a.d
RatLess(a, b) == a.n * b.d < b.n * a.d
RatDiv(a, b) == Rat(a.n * b.d, a.d * b.n)
RatMulInt(a, k) == Rat(a.n * k, a.d)

IsDigit(c) == c \in Digits
IsDot(c) == c = "."
DigitVal(c) == Code[c] - Code["0"]

\* int() of a \d+ capture
RECURSIVE int(_)
int(s) ==
    IF s = <<>> THEN 0
    ELSE 10 * int(SubSeq(s, 1, Len(s) - 1)) + DigitVal(s[Len(s)])

\* float() accepts a [\d.]+ capture only when it has at most one dot and at
\* least one digit; on any other capture it raises ValueError
ValidFloat(tok) ==
    /\ Plus(tok, DigitDot)
    /\ Len(SelectSeq(tok, IsDot)) <= 1
    /\ Len(SelectSeq(tok, IsDigit)) >= 1

float(tok) ==
    LET dot == IF \E i \in 1..Len(tok) : tok[i] = "."
               THEN CHOOSE i \in 1..Len(tok) : tok[i] = "."
               ELSE Len(tok)
    IN  Rat(int(SelectSeq(tok, IsDigit)), 10 ^ (Len(tok) - dot))

convert_to_ns(value, unit) ==
    LET u == lower(unit)
    IN  IF u \in {<<"n", "s">>, <<"n", "a", "n", "o", "s", "e", "c", "o", "n", "d", "s">>} THEN value
        ELSE IF u \in {<<"µ", "s">>, <<"u", "s">>, <<"m", "i", "c", "r", "o", "s", "e", "c", "o", "n", "d", "s">>}
             THEN RatMulInt(value, 1000)
        ELSE IF u \in {<<"m", "s">>, <<"m", "i", "l", "l", "i", "s", "e", "c", "o", "n", "d", "s">>}
             THEN RatMulInt(value, 1000000)
        ELSE IF u \in {<<"s">>, <<"s", "e", "c", "o", "n", "d", "s">>}
             THEN RatMulInt(value, 1000000000)
        ELSE value

(***************************************************************************)
(* Mappings (dict) and records (BenchResult)                               *)
(***************************************************************************)
Put(m, k, v) == [x \in (DOMAIN m) \cup {k} |-> IF x = k THEN v ELSE m[x]]

BenchResult(name, ns, bytes_op, allocs_op, source) ==
    [name |-> name, ns_per_op |-> ns, bytes_per_op |-> bytes_op,
     allocs_per_op |-> allocs_op, source |-> source]

(***************************************************************************)
(* parse_go_bench                                                          *)
(***************************************************************************)
\* group 1 of the pattern on a first token "Benchmark" + rest: the shortest
\* non-empty prefix of rest that is followed by an optional -\d+ and the
\* end of the token
GoName(tok) ==
    LET rest == Drop(tok, 9)
        cut == {i \in 2..Len(rest) :
                   rest[i] = "-" /\ Plus(Drop(rest, i), Digits)}
    IN  IF cut # {} THEN SubSeq(rest, 1, (CHOOSE i \in cut : TRUE) - 1)
        ELSE rest

\* pattern.match(line.strip()): None, or the captured groups
GoMatch(line) ==
    IF /\ Len(line) >= 4
       /\ StartsWith(line[1], <<"B", "e", "n", "c", "h", "m", "a", "r", "k">>) /\ Len(line[1]) > 9
       /\ Plus(line[2], Digits)
       /\ Plus(line[3], DigitDot)
       /\ StartsWith(line[4], <<"n", "s", "/", "o", "p">>)
    THEN LET hasBytes == /\ line[4] = <<"n", "s", "/", "o", "p">>
                         /\ Len(line) >= 6
                         /\ Plus(line[5], Digits)
                         /\ StartsWith(line[6], <<"B", "/", "o", "p">>)
             a == IF hasBytes THEN 6 ELSE 4
             hasAllocs == /\ line[a] \in {<<"n", "s", "/", "o", "p">>, <<"B", "/", "o", "p">>}
                          /\ Len(line) >= a + 2
                          /\ Plus(line[a + 1], Digits)
                          /\ StartsWith(line[a + 2], <<"a", "l", "l", "o", "c", "s", "/", "o", "p">>)
         IN  Some([name |-> GoName(line[1]),
                   ns |-> line[3],
                   bytes_op |-> IF hasBytes THEN Some(line[5]) ELSE None,
                   allocs_op |-> IF hasAllocs THEN Some(line[a + 1]) ELSE None])
    ELSE None

\* the body of the loop of parse_go_bench on one line
GoStep(line, results) ==
    LET m == GoMatch(line)
    IN  IF m = None THEN [raised |-> FALSE, results |-> results]
        ELSE IF ~ValidFloat(m[1].ns) THEN [raised |-> TRUE, results |-> results]
        ELSE [raised |-> FALSE,
              results |->
                Put(results, normalize_name(m[1].name),
                    BenchResult(<<"B", "e", "n", "c", "h", "m", "a", "r", "k">> \o m[1].name,
                                float(m[1].ns),
                                IF m[1].bytes_op # None
                                THEN Some(int(m[1].bytes_op[1])) ELSE None,
                                IF m[1].allocs_op # None
                                THEN Some(int(m[1].allocs_op[1])) ELSE None,
                                "go"))]

(***************************************************************************)
(* parse_rust_bench                                                        *)
(***************************************************************************)
\* a single token with a slash strictly inside it
IsPathToken(tok) == \E i \in 2..(Len(tok) - 1) : tok[i] = "/"

\* name_pattern.match(line): None, or group(1) or group(2)
NameMatch(line) ==
    IF Len(line) = 1 /\ IsPathToken(line[1]) THEN Some(line[1])
    ELSE IF Len(line) >= 2 /\ StartsWith(line[2], <<"t", "i", "m", "e", ":">>) THEN Some(line[1])
    ELSE None

\* "[" followed by [\d.]+ up to the end of the token
OpenVal(tok) == Len(tok) >= 2 /\ tok[1] = "[" /\ Plus(Drop(tok, 1), DigitDot)

\* length of the longest prefix of tok made of \w characters
WordPrefixLen(tok) ==
    IF AllIn(tok, WordChars) THEN Len(tok)
    ELSE (CHOOSE i \in 1..Len(tok) :
             tok[i] \notin WordChars /\ AllIn(SubSeq(tok, 1, i - 1), WordChars)) - 1

\* \w+ followed by "]"
CloseUnit(tok) ==
    /\ WordPrefixLen(tok) >= 1
    /\ Len(tok) > WordPrefixLen(tok)
    /\ tok[WordPrefixLen(tok) + 1] = "]"

TimeAt(line, i) ==
    /\ i + 6 <= Len(line)
    /\ EndsWith(line[i], <<"t", "i", "m", "e", ":">>)
    /\ OpenVal(line[i + 1])
    /\ Plus(line[i + 2], WordChars)
    /\ Plus(line[i + 3], DigitDot)
    /\ Plus(line[i + 4], WordChars)
    /\ Plus(line[i + 5], DigitDot)
    /\ CloseUnit(line[i + 6])

\* time_pattern.search(line): None, or groups 3 and 4 of the leftmost match
TimeMatch(line) ==
    IF \E i \in 1..Len(line) : TimeAt(line, i)
    THEN LET i == CHOOSE k \in 1..Len(line) :
                     TimeAt(line, k) /\ \A j \in 1..(k - 1) : ~TimeAt(line, j)
         IN  Some([median |-> line[i + 3], unit |-> line[i + 4]])
    ELSE None

\* simple_pattern.match(line): None, or the captured groups
SimpleMatch(line) ==
    IF /\ Len(line) >= 4
       /\ line[2] = <<"t", "i", "m", "e", ":">>
       /\ OpenVal(line[3])
       /\ WordPrefixLen(line[4]) >= 1
    THEN Some([name |-> line[1],
               val |-> Drop(line[3], 1),
               unit |-> SubSeq(line[4], 1, WordPrefixLen(line[4]))])
    ELSE None

\* current_name after the name-matching block of the loop body
NameBlock(line, cur) ==
    IF NameMatch(line) # None
    THEN Some(replace(NameMatch(line)[1], "/", "_"))
    ELSE cur

\* "time_match and current_name"
TimeFires(line, cur) ==
    /\ TimeMatch(line) # None
    /\ NameBlock(line, cur) # None
    /\ NameBlock(line, cur)[1] # <<>>

\* the body of the loop of parse_rust_bench on one line
RustStep(line, results, cur) ==
    LET cur1 == NameBlock(line, cur)
        tm == TimeMatch(line)
        fires == TimeFires(line, cur)
        res1 == IF fires
                THEN Put(results, normalize_name(cur1[1]),
                         BenchResult(cur1[1],
                                     convert_to_ns(float(tm[1].median), tm[1].unit),
                                     None, None, "rust"))
                ELSE results
        cur2 == IF fires THEN None ELSE cur1
        sm == SimpleMatch(line)
        res2 == IF sm # None
                THEN Put(res1, normalize_name(sm[1].name),
                         BenchResult(sm[1].name,
                                     convert_to_ns(float(sm[1].val), sm[1].unit),
                                     None, None, "rust"))
                ELSE res1
    IN  IF fires /\ ~ValidFloat(tm[1].median)
        THEN [raised |-> TRUE, results |-> results, current_name |-> cur1]
        ELSE IF sm # None /\ ~ValidFloat(sm[1].val)
        THEN [raised |-> TRUE, results |-> res1, current_name |-> cur2]
        ELSE [raised |-> FALSE, results |-> res2, current_name |-> cur2]

(***************************************************************************)
(* compare_results                                                         *)
(***************************************************************************)
Min(a, b) == IF a <= b THEN a ELSE b

\* the order of str under <, by code point, a proper prefix first
LexLess(a, b) ==
    \E i \in 1..(Min(Len(a), Len(b)) + 1) :
        /\ \A j \in 1..(i - 1) : a[j] = b[j]
        /\ \/ i > Len(a) /\ i <= Len(b)
           \/ i <= Len(a) /\ i <= Len(b) /\ Code[a[i]] < Code[b[i]]

RECURSIVE sorted(_)
sorted(S) ==
    IF S = {} THEN <<>>
    ELSE LET m == CHOOSE x \in S : \A y \in S \ {x} : LexLess(x, y)
         IN  <<m>> \o sorted(S \ {m})

\* variant: only the names both mappings have
AllNamesCommon(go, rust) == (DOMAIN go) \cap (DOMAIN rust)
AllNames(go, rust) == (DOMAIN go) \cup (DOMAIN rust)

\* dict.get
Get(m, k) == IF k \in DOMAIN m THEN Some(m[k]) ELSE None

\* variant: the guard excludes only a zero baseline
NonZeroBaseline(go_res) == go_res.ns_per_op.n # 0
\* "go_res.ns_per_op > 0"
PositiveBaseline(go_res) == go_res.ns_per_op.n > 0

\* variant: the thresholds are exclusive
ClassifyStrict(ratio) ==
    IF RatLess(ratio, FromInt(1)) THEN "excellent"
    ELSE IF RatLess(ratio, FromInt(2)) THEN "good"
    ELSE IF RatLess(ratio, FromInt(5)) THEN "acceptable"
    ELSE "needs_work"
Classify(ratio) ==
    IF RatLeq(ratio, FromInt(1)) THEN "excellent"
    ELSE IF RatLeq(ratio, FromInt(2)) THEN "good"
    ELSE IF RatLeq(ratio, FromInt(5)) THEN "acceptable"
    ELSE "needs_work"

\* variant: the two missing_ tags are exchanged
OneSidedSwapped(go_res, rust_res) ==
    IF go_res # None THEN "missing_go"
    ELSE IF rust_res # None THEN "missing_rust"
    ELSE "missing_both"
\* the status given when exactly one side has the name
OneSided(go_res, rust_res) ==
    IF go_res # None THEN "missing_rust"
    ELSE IF rust_res # None THEN "missing_go"
    ELSE "missing_both"

Comparison(norm_name, go, rust) ==
    LET go_res == Get(go, norm_name)
        rust_res == Get(rust, norm_name)
        matched == go_res # None /\ rust_res # None
        rated == matched /\ PositiveBaseline(go_res[1])
        ratio == RatDiv(rust_res[1].ns_per_op, go_res[1].ns_per_op)
    IN  [normalized_name |-> norm_name,
         go_name |-> IF go_res # None THEN Some(go_res[1].name) ELSE None,
         rust_name |-> IF rust_res # None THEN Some(rust_res[1].name) ELSE None,
         go_ns |-> IF go_res # None THEN Some(go_res[1].ns_per_op) ELSE None,
         rust_ns |-> IF rust_res # None THEN Some(rust_res[1].ns_per_op) ELSE None,
         ratio |-> IF rated THEN Some(ratio) ELSE None,
         status |-> IF matched
                    THEN (IF rated THEN Classify(ratio) ELSE "missing_both")
                    ELSE OneSided(go_res, rust_res)]

compare_results(go, rust) ==
    LET names == sorted(AllNames(go, rust))
    IN  [i \in 1..Len(names) |-> Comparison(names[i], go, rust)]

(***************************************************************************)
(* print_table and the summary of the JSON output of main                  *)
(***************************************************************************)
HasRatio(c) == c.ratio # None
IsExcellent(c) == c.status = "excellent"
IsGoodOrBetter(c) == c.status \in {"excellent", "good"}
IsAcceptableOrBetter(c) == c.status \in {"excellent", "good", "acceptable"}
IsNeedsWork(c) == c.status = "needs_work"

\* the three counters of print_table: the second branch is the elif of
\* the first one
TableExcellent(c) == HasRatio(c) /\ c.status = "excellent"
TableGood(c) ==
    /\ HasRatio(c)
    /\ ~(c.status = "excellent")
    /\ c.status \in {"excellent", "good"}

\* the numbers of the summary block of the table
print_table(rows) ==
    [total |-> Len(rows),
     matched |-> Cardinality({i \in 1..Len(rows) : HasRatio(rows[i])}),
     excellent |-> Cardinality({i \in 1..Len(rows) : TableExcellent(rows[i])}),
     good |-> Cardinality({i \in 1..Len(rows) : TableGood(rows[i])})]

\* output['summary'] of main
JsonSummary(rows) ==
    [total |-> Len(rows),
     matched |-> Cardinality({i \in 1..Len(rows) : HasRatio(rows[i])}),
     excellent |-> Cardinality({i \in 1..Len(rows) : IsExcellent(rows[i])}),
     good |-> Cardinality({i \in 1..Len(rows) : IsGoodOrBetter(rows[i])}),
     acceptable |-> Cardinality({i \in 1..Len(rows) : IsAcceptableOrBetter(rows[i])}),
     needs_work |-> Cardinality({i \in 1..Len(rows) : IsNeedsWork(rows[i])})]

(***************************************************************************)
(* The steps of main                                                       *)
(***************************************************************************)
\* one iteration of "for line in f" in parse_go_bench
ParseGoLine ==
    /\ pc = "parse_go"
    /\ go_i <= Len(go_file)
    /\ LET r == GoStep(go_file[go_i], go_results)
       IN  IF r.raised
           THEN /\ pc' = "raised"
                /\ err' = "parse_go_bench"
                /\ UNCHANGED <<go_i, go_results>>
           ELSE /\ go_results' = r.results
                /\ go_i' = go_i + 1
                /\ UNCHANGED <<pc, err>>
    /\ UNCHANGED <<go_file, rust_file, rust_i, rust_results, current_name,
                   comparisons, table, summary, nm_in, nm_out>>

\* parse_go_bench returns; parse_rust_bench starts
ParseGoReturn ==
    /\ pc = "parse_go"
    /\ go_i > Len(go_file)
    /\ pc' = "parse_rust"
    /\ UNCHANGED <<err, go_file, rust_file, go_i, rust_i, go_results,
                   rust_results, current_name, comparisons, table, summary,
                   nm_in, nm_out>>

\* one iteration of "for line in f" in parse_rust_bench
ParseRustLine ==
    /\ pc = "parse_rust"
    /\ rust_i <= Len(rust_file)
    /\ LET r == RustStep(rust_file[rust_i], rust_results, current_name)
       IN  IF r.raised
           THEN /\ pc' = "raised"
                /\ err' = "parse_rust_bench"
                /\ UNCHANGED <<rust_i, rust_results, current_name>>
           ELSE /\ rust_results' = r.results
                /\ current_name' = r.current_name
                /\ rust_i' = rust_i + 1
                /\ UNCHANGED <<pc, err>>
    /\ UNCHANGED <<go_file, rust_file, go_i, go_results, comparisons, table,
                   summary, nm_in, nm_out>>

\* parse_rust_bench returns its mapping; current_name goes out of scope
ParseRustReturn ==
    /\ pc = "parse_rust"
    /\ rust_i > Len(rust_file)
    /\ pc' = "compare"
    /\ current_name' = None
    /\ UNCHANGED <<err, go_file, rust_file, go_i, rust_i, go_results,
                   rust_results, comparisons, table, summary, nm_in, nm_out>>

Compare ==
    /\ pc = "compare"
    /\ comparisons' = compare_results(go_results, rust_results)
    /\ pc' = "output"
    /\ UNCHANGED <<err, go_file, rust_file, go_i, rust_i, go_results,
                   rust_results, current_name, table, summary, nm_in, nm_out>>

\* main without --json: print_table; max() of no rows raises ValueError
PrintTable ==
    /\ pc = "output"
    /\ IF comparisons = <<>>
       THEN /\ pc' = "raised"
            /\ err' = "print_table"
            /\ UNCHANGED table
       ELSE /\ table' = Some(print_table(comparisons))
            /\ pc' = "done"
            /\ UNCHANGED err
    /\ UNCHANGED <<go_file, rust_file, go_i, rust_i, go_results,
                   rust_results, current_name, comparisons, summary,
                   nm_in, nm_out>>

\* main with --json
PrintJson ==
    /\ pc = "output"
    /\ summary' = Some(JsonSummary(comparisons))
    /\ pc' = "done"
    /\ UNCHANGED <<err, go_file, rust_file, go_i, rust_i, go_results,
                   rust_results, current_name, comparisons, table,
                   nm_in, nm_out>>

(***************************************************************************)
(* Specification of main on two report files of at most MaxGoLines and     *)
(* MaxRustLines lines taken from the lines below.                          *)
(***************************************************************************)
GoLines == {
    <<<<"B", "e", "n", "c", "h", "m", "a", "r", "k", "F", "o", "o", "-", "8">>, <<"1", "0", "0", "0", "0", "0", "0">>, <<"1", "2", "3", ".", "0">>, <<"n", "s", "/", "o", "p">>, <<"1", "6">>, <<"B", "/", "o", "p">>,
      <<"1">>, <<"a", "l", "l", "o", "c", "s", "/", "o", "p">>>>,
    <<<<"B", "e", "n", "c", "h", "m", "a", "r", "k", "X", "-", "4">>, <<"5", "0", "0">>, <<"5", "0", ".", "0">>, <<"n", "s", "/", "o", "p">>>>,
    <<<<"B", "e", "n", "c", "h", "m", "a", "r", "k", "B", "a", "d">>, <<"1">>, <<"1", ".", "2", ".", "3">>, <<"n", "s", "/", "o", "p">>>>,
    <<<<"P", "A", "S", "S">>>> }

RustLines == {
    <<<<"a", "/", "b">>>>,
    <<<<"t", "i", "m", "e", ":">>, <<"[", "1", ".", "0">>, <<"n", "s">>, <<"2", ".", "0">>, <<"u", "s">>, <<"3", ".", "0">>, <<"m", "s", "]">>>>,
    <<<<"x">>, <<"t", "i", "m", "e", ":">>, <<"[", "7", ".", "0">>, <<"n", "s">>>>,
    <<<<"r", "e", "n", "d", "e", "r", "_", "f", "o", "o">>, <<"t", "i", "m", "e", ":">>, <<"[", "2", "4", "6", ".", "0">>, <<"n", "s">>, <<"2", "4", "6", ".", "0">>, <<"n", "s">>,
      <<"2", "4", "6", ".", "0">>, <<"n", "s", "]">>>>,
    <<<<"b", "e", "n", "c", "h", "_", "f", "o", "o">>, <<"t", "i", "m", "e", ":">>, <<"[", "2", "4", "6", ".", "0">>, <<"n", "s">>, <<"2", "4", "6", ".", "0">>, <<"n", "s">>,
      <<"2", "4", "6", ".", "0">>, <<"n", "s", "]">>>>,
    <<<<"t", "i", "m", "e", ":">>, <<"[", "1", ".", "0">>, <<"n", "s">>, <<"1", ".", "2", ".", "3">>, <<"n", "s">>, <<"3", ".", "0">>, <<"n", "s", "]">>>>,
    <<<<"B", "e", "n", "c", "h", "m", "a", "r", "k", "i", "n", "g">>, <<"x">>>> }

Files(lines, max) == UNION {[1..n -> lines] : n \in 0..max}

Init ==
    /\ pc = "parse_go"
    /\ err = "none"
    /\ go_file \in Files(GoLines, MaxGoLines)
    /\ rust_file \in Files(RustLines, MaxRustLines)
    /\ go_i = 1 /\ rust_i = 1
    /\ go_results = <<>> /\ rust_results = <<>>
    /\ current_name = None
    /\ comparisons = <<>>
    /\ table = None /\ summary = None
    /\ nm_in = <<>> /\ nm_out = <<>>

Next ==
    \/ ParseGoLine
    \/ ParseGoReturn
    \/ ParseRustLine
    \/ ParseRustReturn
    \/ Compare
    \/ PrintTable
    \/ PrintJson

Spec == Init /\ [][Next]_vars

(***************************************************************************)
(* Specification of compare_results and the presenters on two arbitrary    *)
(* mappings of at most MaxEntries entries each.                            *)
(***************************************************************************)
Keys == { <<"a">>, <<"a", "b">>, <<"b">> }
GoNs == {-1, 0, 1, 2}
RustNs == {1, 2, 3, 5, 11}

Domains == {D \in SUBSET Keys : Cardinality(D) <= MaxEntries}
GoMaps ==
    UNION {{[k \in D |-> BenchResult(<<"B", "e", "n", "c", "h", "m", "a", "r", "k">> \o k, FromInt(f[k]),
                                     None, None, "go")] : f \in [D -> GoNs]}
           : D \in Domains}
RustMaps ==
    UNION {{[k \in D |-> BenchResult(k, FromInt(f[k]), None, None, "rust")]
            : f \in [D -> RustNs]}
           : D \in Domains}

InitCmp ==
    /\ pc = "compare"
    /\ err = "none"
    /\ go_file = <<>> /\ rust_file = <<>>
    /\ go_i = 1 /\ rust_i = 1
    /\ go_results \in GoMaps
    /\ rust_results \in RustMaps
    /\ current_name = None
    /\ comparisons = <<>>
    /\ table = None /\ summary = None
    /\ nm_in = <<>> /\ nm_out = <<>>

NextCmp == Compare \/ PrintTable \/ PrintJson

SpecCmp == InitCmp /\ [][NextCmp]_vars

(***************************************************************************)
(* Specification of repeated normalization: the input is a concatenation   *)
(* of at most MaxPieces pieces, normalize_name is applied to it and then   *)
(* to its own result.                                                      *)
(***************************************************************************)
Pieces == { <<"B", "e", "n", "c", "h", "m", "a", "r", "k">>, <<"b", "e", "n", "c", "h", "_">>, <<"_">>, <<"/">>, <<"-", "8">>, <<"-">>, <<"F">>, <<"a">> }

RECURSIVE Concats(_)
Concats(n) ==
    IF n = 0 THEN {<<>>}
    ELSE Concats(n - 1) \cup {s \o p : s \in Concats(n - 1), p \in Pieces}
NameInputs == Concats(MaxPieces)

Idle ==
    /\ err = "none"
    /\ go_file = <<>> /\ rust_file = <<>>
    /\ go_i = 1 /\ rust_i = 1
    /\ go_results = <<>> /\ rust_results = <<>>
    /\ current_name = None
    /\ comparisons = <<>>
    /\ table = None /\ summary = None

InitNorm ==
    /\ pc = "normalize"
    /\ Idle
    /\ nm_in \in NameInputs
    /\ nm_out = <<>>

Normalize ==
    /\ pc = "normalize"
    /\ Len(nm_out) < MaxCalls
    /\ nm_out' = Append(nm_out, normalize_name(IF nm_out = <<>> THEN nm_in
                                                ELSE nm_out[Len(nm_out)]))
    /\ UNCHANGED <<pc, err, go_file, rust_file, go_i, rust_i, go_results,
                   rust_results, current_name, comparisons, table, summary,
                   nm_in>>

NextNorm == Normalize
SpecNorm == InitNorm /\ [][NextNorm]_vars

\* C4: normalize_name is idempotent: normalizing the result of a
\* normalization returns it unchanged.
C4_Idempotent ==
    \A k \in 2..Len(nm_out) : nm_out[k] = nm_out[k - 1]
(***************************************************************************)
(* Properties                                                              *)
(***************************************************************************)
\* compare_results has returned
Compared == pc \in {"output", "done"} \/ (pc = "raised" /\ err = "print_table")

Row(k) == CHOOSE c \in {comparisons[i] : i \in 1..Len(comparisons)} :
              c.normalized_name = k

InBoth(k) == k \in DOMAIN go_results /\ k \in DOMAIN rust_results
OnlyGo(k) == k \in DOMAIN go_results /\ k \notin DOMAIN rust_results
OnlyRust(k) == k \notin DOMAIN go_results /\ k \in DOMAIN rust_results
RowKeys == {comparisons[i].normalized_name : i \in 1..Len(comparisons)}

\* a before b in dictionary order of the code points
RECURSIVE StrBefore(_, _)
StrBefore(a, b) ==
    IF b = <<>> THEN FALSE
    ELSE IF a = <<>> THEN TRUE
    ELSE IF a[1] = b[1] THEN StrBefore(Tail(a), Tail(b))
    ELSE Code[a[1]] < Code[b[1]]

\* C1: compare_results returns exactly one row per key of the union of the
\* two key sets (every key in exactly one row, no other rows, as many rows
\* as the union has keys) and the rows ascend lexicographically by
\* normalized_name.
C1_OneRowPerKeySorted ==
    Compared =>
        LET U == (DOMAIN go_results) \cup (DOMAIN rust_results)
        IN  /\ Len(comparisons) = Cardinality(U)
            /\ RowKeys = U
            /\ \A k \in U :
                   Cardinality({i \in 1..Len(comparisons) :
                                   comparisons[i].normalized_name = k}) = 1
            /\ \A i \in 1..Len(comparisons) : \A j \in 1..Len(comparisons) :
                   i < j => StrBefore(comparisons[i].normalized_name,
                                      comparisons[j].normalized_name)

\* three rows: a name on each side only and a name on both sides
C1_Witness ==
    /\ Compared
    /\ Len(comparisons) = 3
    /\ \E k \in RowKeys : InBoth(k)
    /\ \E k \in RowKeys : OnlyGo(k)
    /\ \E k \in RowKeys : OnlyRust(k)

\* C2: for a name in both mappings with a Go timing > 0 the ratio is
\* rust ns / go ns and the status is excellent for ratio <= 1, good for
\* 1 < ratio <= 2, acceptable for 2 < ratio <= 5, needs_work above 5; the
\* ratios 1, 2 and 5 themselves are excellent, good and acceptable.
C2_RatioAndStatus ==
    Compared =>
        \A k \in RowKeys :
            (InBoth(k) /\ go_results[k].ns_per_op.n > 0) =>
                LET g == go_results[k].ns_per_op
                    r == rust_results[k].ns_per_op
                    c == Row(k)
                IN  /\ c.ratio # None
                    /\ c.ratio[1].d > 0
                    /\ c.ratio[1].n * g.n * r.d = r.n * g.d * c.ratio[1].d
                    /\ LET q == c.ratio[1]
                       IN  /\ (q.n <= q.d) => c.status = "excellent"
                           /\ (q.d < q.n /\ q.n <= 2 * q.d) => c.status = "good"
                           /\ (2 * q.d < q.n /\ q.n <= 5 * q.d)
                                  => c.status = "acceptable"
                           /\ (5 * q.d < q.n) => c.status = "needs_work"
                           /\ (q = FromInt(1)) => c.status = "excellent"
                           /\ (q = FromInt(2)) => c.status = "good"
                           /\ (q = FromInt(5)) => c.status = "acceptable"

\* a row on the boundary 2.0 beside a row on the boundary 5.0
C2_Witness ==
    /\ Compared
    /\ \E k \in RowKeys : Row(k).ratio = Some(FromInt(2)) /\ Row(k).status = "good"
    /\ \E k \in RowKeys :
           Row(k).ratio = Some(FromInt(5)) /\ Row(k).status = "acceptable"

\* C3: a name in only one mapping gets a row without ratio, with the name
\* and timing of the absent side null and the status naming the absent
\* source (missing_rust for a Go-only name, missing_go for a Rust-only
\* name); with an empty Go mapping and a non-empty Rust mapping every row
\* is missing_go and the matched count of the summary is 0.
C3_OneSidedRows ==
    Compared =>
        /\ \A k \in RowKeys :
               /\ OnlyGo(k) =>
                      /\ Row(k).ratio = None
                      /\ Row(k).rust_name = None /\ Row(k).rust_ns = None
                      /\ Row(k).go_name = Some(go_results[k].name)
                      /\ Row(k).go_ns = Some(go_results[k].ns_per_op)
                      /\ Row(k).status = "missing_rust"
               /\ OnlyRust(k) =>
                      /\ Row(k).ratio = None
                      /\ Row(k).go_name = None /\ Row(k).go_ns = None
                      /\ Row(k).rust_name = Some(rust_results[k].name)
                      /\ Row(k).rust_ns = Some(rust_results[k].ns_per_op)
                      /\ Row(k).status = "missing_go"
        /\ (go_results = <<>> /\ rust_results # <<>>) =>
               /\ Len(comparisons) >= 1
               /\ \A i \in 1..Len(comparisons) :
                      comparisons[i].status = "missing_go"
               /\ summary # None => summary[1].matched = 0
               /\ table # None => table[1].matched = 0

\* the JSON summary of a comparison of nothing with two Rust records
C3_Witness ==
    /\ pc = "done"
    /\ go_results = <<>>
    /\ Len(comparisons) = 2
    /\ summary # None

\* C10: a row has a ratio iff both records are present and the Go timing
\* is > 0, and iff its status is one of excellent, good, acceptable,
\* needs_work; its status is missing_both exactly when both records are
\* present and the Go timing is zero or negative, and then it has no ratio.
C10_RatioIffRated ==
    Compared =>
        \A k \in RowKeys :
            LET c == Row(k)
                rated == InBoth(k) /\ go_results[k].ns_per_op.n > 0
                unrated == InBoth(k) /\ go_results[k].ns_per_op.n <= 0
            IN  /\ (c.ratio # None) <=> rated
                /\ (c.ratio # None) <=>
                       c.status \in {"excellent", "good", "acceptable", "needs_work"}
                /\ (c.status = "missing_both") <=> unrated
                /\ (c.status = "missing_both") => c.ratio = None

\* a matched row with a zero or negative baseline beside a rated row
C10_Witness ==
    /\ Compared
    /\ \E k \in RowKeys : InBoth(k) /\ Row(k).status = "missing_both"
    /\ \E k \in RowKeys : Row(k).ratio # None

\* C7: the good-or-better count of the table summary is the number of rows
\* whose status is excellent or good, hence at least the excellent count
\* beside it and equal to the 'good' count of the JSON summary of the same
\* rows.
C7_GoodOrBetterCount ==
    table # None =>
        /\ table[1].good = Cardinality({i \in 1..Len(comparisons) :
                            comparisons[i].status \in {"excellent", "good"}})
        /\ table[1].good >= table[1].excellent
        /\ table[1].good = JsonSummary(comparisons).good

ScenarioGo ==
    <<<<"B", "e", "n", "c", "h", "m", "a", "r", "k", "F", "o", "o", "-", "8">>, <<"1", "0", "0", "0", "0", "0", "0">>, <<"1", "2", "3", ".", "0">>, <<"n", "s", "/", "o", "p">>, <<"1", "6">>, <<"B", "/", "o", "p">>,
      <<"1">>, <<"a", "l", "l", "o", "c", "s", "/", "o", "p">>>>
ScenarioRust ==
    <<<<"r", "e", "n", "d", "e", "r", "_", "f", "o", "o">>, <<"t", "i", "m", "e", ":">>, <<"[", "2", "4", "6", ".", "0">>, <<"n", "s">>, <<"2", "4", "6", ".", "0">>, <<"n", "s">>,
      <<"2", "4", "6", ".", "0">>, <<"n", "s", "]">>>>
ScenarioRustBenchFoo ==
    <<<<"b", "e", "n", "c", "h", "_", "f", "o", "o">>, <<"t", "i", "m", "e", ":">>, <<"[", "2", "4", "6", ".", "0">>, <<"n", "s">>, <<"2", "4", "6", ".", "0">>, <<"n", "s">>,
      <<"2", "4", "6", ".", "0">>, <<"n", "s", "]">>>>

\* C5 as stated: the BenchmarkFoo-8 line against the render_foo line gives
\* exactly one row, matched, with ratio 2.0 and status good.
C5_OneMatchedRow ==
    (Compared /\ go_file = <<ScenarioGo>> /\ rust_file = <<ScenarioRust>>) =>
        /\ Len(comparisons) = 1
        /\ comparisons[1].go_name # None /\ comparisons[1].rust_name # None
        /\ comparisons[1].ratio = Some(FromInt(2))
        /\ comparisons[1].status = "good"

\* C5 amended: the BenchmarkFoo-8 line against the render_foo line gives
\* two unmatched rows, foo (Go only, 123 ns, missing_rust) and renderfoo
\* (Rust only, 246 ns, missing_go), both without ratio; against the line
\* bench_foo time: [246.0 ns 246.0 ns 246.0 ns] it gives the one matched
\* row foo with ratio 2.0 and status good.
C5_ScenarioRows ==
    /\ (Compared /\ go_file = <<ScenarioGo>> /\ rust_file = <<ScenarioRust>>) =>
           /\ Len(comparisons) = 2
           /\ comparisons[1] =
                  [normalized_name |-> <<"f", "o", "o">>,
                   go_name |-> Some(<<"B", "e", "n", "c", "h", "m", "a", "r", "k", "F", "o", "o">>), rust_name |-> None,
                   go_ns |-> Some(FromInt(123)), rust_ns |-> None,
                   ratio |-> None, status |-> "missing_rust"]
           /\ comparisons[2] =
                  [normalized_name |-> <<"r", "e", "n", "d", "e", "r", "f", "o", "o">>,
                   go_name |-> None, rust_name |-> Some(<<"r", "e", "n", "d", "e", "r", "_", "f", "o", "o">>),
                   go_ns |-> None, rust_ns |-> Some(FromInt(246)),
                   ratio |-> None, status |-> "missing_go"]
    /\ (Compared /\ go_file = <<ScenarioGo>>
                 /\ rust_file = <<ScenarioRustBenchFoo>>) =>
           /\ Len(comparisons) = 1
           /\ comparisons[1] =
                  [normalized_name |-> <<"f", "o", "o">>,
                   go_name |-> Some(<<"B", "e", "n", "c", "h", "m", "a", "r", "k", "F", "o", "o">>),
                   rust_name |-> Some(<<"b", "e", "n", "c", "h", "_", "f", "o", "o">>),
                   go_ns |-> Some(FromInt(123)), rust_ns |-> Some(FromInt(246)),
                   ratio |-> Some(FromInt(2)), status |-> "good"]

\* main has finished on the two scenario files
C5_Witness ==
    /\ pc = "done"
    /\ go_file = <<ScenarioGo>> /\ rust_file = <<ScenarioRust>>
    /\ Len(comparisons) = 2

\* C6: no parser raises on a line: each loop iteration either stores one
\* record or leaves the mapping unchanged, and goes on to the next line.
C6_ParsersNeverRaise ==
    [][/\ (pc = "parse_go" /\ go_i <= Len(go_file)) =>
              /\ pc' = "parse_go" /\ err' = "none" /\ go_i' = go_i + 1
              /\ \/ go_results' = go_results
                 \/ \E k \in DOMAIN go_results' :
                        go_results' = Put(go_results, k, go_results'[k])
       /\ (pc = "parse_rust" /\ rust_i <= Len(rust_file)) =>
              /\ pc' = "parse_rust" /\ err' = "none" /\ rust_i' = rust_i + 1
              /\ \/ rust_results' = rust_results
                 \/ \E k \in DOMAIN rust_results' :
                        rust_results' = Put(rust_results, k, rust_results'[k])
      ]_vars

\* a line that is only a path-like name
PathLine(line) == Len(line) = 1 /\ IsPathToken(line[1])
\* a three-value interval line with no name of its own
UnnamedInterval(line) == TimeMatch(line) # None /\ NameMatch(line) = None
\* a path-like name line came before line i with no interval line between
PathSince(i) ==
    \E j \in 1..(i - 1) :
        /\ PathLine(rust_file[j])
        /\ \A k \in (j + 1)..(i - 1) : TimeMatch(rust_file[k]) = None

\* C8: an interval line without a name of its own stores a record only if
\* a path-like name line set the pending name since the last interval
\* line; the record goes under the normalized pending name with the median
\* value converted by its own unit and the pending name is cleared;
\* otherwise the line leaves the mapping unchanged.
C8_PendingNameOneShot ==
    [][(/\ pc = "parse_rust" /\ rust_i <= Len(rust_file)
        /\ UnnamedInterval(rust_file[rust_i])
        /\ pc' = "parse_rust") =>
           LET tm == TimeMatch(rust_file[rust_i])[1]
           IN  IF PathSince(rust_i)
               THEN /\ current_name # None
                    /\ rust_results' =
                           Put(rust_results, normalize_name(current_name[1]),
                               BenchResult(current_name[1],
                                           convert_to_ns(float(tm.median), tm.unit),
                                           None, None, "rust"))
                    /\ current_name' = None
               ELSE rust_results' = rust_results
      ]_vars

\* C9: a shorthand line (name, "time: [", a first value and its unit) sets
\* exactly the entry of its own normalized name to the first bracket value
\* in nanoseconds and leaves the pending name as it was.
C9_ShorthandIndependent ==
    [][(/\ pc = "parse_rust" /\ rust_i <= Len(rust_file)
        /\ SimpleMatch(rust_file[rust_i]) # None
        /\ pc' = "parse_rust") =>
           LET sm == SimpleMatch(rust_file[rust_i])[1]
           IN  /\ rust_results' =
                      Put(rust_results, normalize_name(sm.name),
                          BenchResult(sm.name,
                                      convert_to_ns(float(sm.val), sm.unit),
                                      None, None, "rust"))
               /\ current_name' = current_name
      ]_vars

====
